---- MODULE Spec2Model ----
(***************************************************************************)
(* Slide ingestion service: file checks, text extraction into chunks,      *)
(* embedding probe, per-chunk embed + upsert into the vector index, and    *)
(* the get-or-create of the index handle.                                  *)
(*                                                                         *)
(* The external collaborators (file system, MIME sniffer, document         *)
(* parsers, embedding API, vector database) are modelled by the outcomes   *)
(* they can produce; every outcome is chosen nondeterministically at the   *)
(* step that makes the call.  Requests are handled one at a time.          *)
(***************************************************************************)
EXTENDS Integers, Sequences, FiniteSets, TLC

----------------------------------------------------------------------------
(* Bounds of the model *)

\* most chunks the text splitter returns for one file
MaxChunks == 2
\* most chunk ids generated over a run (uploads are admitted while ids remain)
MaxIds == 3
\* most temporary files that may be left on disk at once
MaxTempFiles == 1

----------------------------------------------------------------------------
(* Program constants *)

MAX_FILE_SIZE == 10 * 1024 * 1024
EMBEDDING_DIMENSION == 768
ExpectedProbeDimension == 768
HTTP_400_BAD_REQUEST == 400
HTTP_404_NOT_FOUND == 404
HTTP_500_INTERNAL_SERVER_ERROR == 500

SUPPORTED_FILE_TYPES ==
    [m \in {"application/pdf",
            "application/vnd.openxmlformats-officedocument.wordprocessingml.document",
            "application/vnd.openxmlformats-officedocument.presentationml.presentation",
            "application/vnd.openxmlformats-officedocument.spreadsheetml.sheet",
            "application/msword", "application/vnd.ms-powerpoint",
            "application/vnd.ms-excel", "text/plain"} |->
        CASE m = "application/pdf" -> ".pdf"
          [] m = "application/vnd.openxmlformats-officedocument.wordprocessingml.document" -> ".docx"
          [] m = "application/vnd.openxmlformats-officedocument.presentationml.presentation" -> ".pptx"
          [] m = "application/vnd.openxmlformats-officedocument.spreadsheetml.sheet" -> ".xlsx"
          [] m = "application/msword" -> ".doc"
          [] m = "application/vnd.ms-powerpoint" -> ".ppt"
          [] m = "application/vnd.ms-excel" -> ".xls"
          [] m = "text/plain" -> ".txt"]

\* the extensions load_document accepts when the MIME type is not a key
FallbackExtensions ==
    {".pdf", ".docx", ".doc", ".pptx", ".ppt", ".xlsx", ".xls", ".txt"}

----------------------------------------------------------------------------
(* Input domains *)

None == "None"

\* MIME types the sniffer may report: two supported ones, two unsupported
MimeTypes == {"application/pdf", "text/plain", "application/zip",
              "application/octet-stream"}

\* upload file names ("" is a missing file name)
Filenames == {"", "slides.pdf", "NOTES.TXT", "tool.exe"}

\* file sizes around the limits
FileSizes == {0, MAX_FILE_SIZE, MAX_FILE_SIZE + 1}

NoFile == [filename |-> None, size |-> 0]
Files == {NoFile} \cup [filename : Filenames, size : FileSizes]

\* slide_data: absent, or present with / without the three required names
SlideDatas == {[present |-> FALSE, names_ok |-> FALSE],
               [present |-> TRUE, names_ok |-> FALSE],
               [present |-> TRUE, names_ok |-> TRUE]}

\* page_content of a chunk: some text, or whitespace only
Contents == {"text", " "}

\* lengths the embedding API may return for a vector
Dimensions == {768, 512}

\* dimensions an index found at start-up may have (0: no index exists)
IndexDimensions == {0, 768, 1536}

----------------------------------------------------------------------------
(* Exceptions *)

NoExc == [type |-> "none", status |-> 0]
HTTPException(code) == [type |-> "HTTPException", status |-> code]
ValueError == [type |-> "ValueError", status |-> 0]
RuntimeError == [type |-> "RuntimeError", status |-> 0]
\* an error raised by a library or by the operating system
LibraryError == [type |-> "Exception", status |-> 0]

IsHTTP(e) == e.type = "HTTPException"

----------------------------------------------------------------------------
VARIABLES
    _pinecone_client,   \* database module global: None or "client"
    _pinecone_index,    \* database module global: None or "index"
    pinecone_index,     \* controller module global, set at import
    indexDim,           \* vector store: dimension of the named index, 0 if none
    indexCloud,         \* vector store: where the index was created
    store,              \* vector store: the records of the named index
    tempFiles,          \* number of temporary files of the pipeline on disk
    nextUuid,           \* number of uuids generated so far
    upsertLog,          \* history: ids passed to upsert, in order
    req,                \* the upload request being handled or just handled
    op                  \* history: the last operation that took a step

vars == <<_pinecone_client, _pinecone_index, pinecone_index, indexDim,
          indexCloud, store, tempFiles, nextUuid, upsertLog, req, op>>

moduleState == <<_pinecone_client, _pinecone_index, pinecone_index>>
storeState == <<indexDim, indexCloud, store>>

----------------------------------------------------------------------------
(* database.py: init_db and get_pinecone_index *)

\* what the environment answers to the calls of one get_pinecone_index run
DbEnvs == [api_key : BOOLEAN, connect : BOOLEAN, list : BOOLEAN,
           handle : BOOLEAN, describe : BOOLEAN, delete : BOOLEAN,
           aws : BOOLEAN, gcp : BOOLEAN]

DbAllOk == [api_key |-> TRUE, connect |-> TRUE, list |-> TRUE, handle |-> TRUE,
            describe |-> TRUE, delete |-> TRUE, aws |-> TRUE, gcp |-> TRUE]

\* init_db: the client global after the call, and its boolean result
InitDbClient(e) == IF e.api_key THEN "client" ELSE None
InitDb(e) == e.api_key /\ e.connect

\* the after-state and outcome of a get_pinecone_index run
DbResult(client, index, dim, cloud, vectors, exc, contacted) ==
    [client |-> client, index |-> index, dim |-> dim, cloud |-> cloud,
     vectors |-> vectors, exc |-> exc, contacted |-> contacted,
     tried |-> <<>>]

\* a dimension check that always asks for a fresh index
IndexAlwaysMismatch(dim) == TRUE

\* the dimension check of an existing index
IndexDimensionMismatch(dim) == dim # EMBEDDING_DIMENSION

\* the existing-index branch, after list_indexes succeeded
UseExistingIndex(client, e) ==
    IF ~e.handle
    THEN DbResult(client, None, indexDim, indexCloud, store, RuntimeError, TRUE)
    ELSE IF e.describe /\ IndexDimensionMismatch(indexDim) /\ e.delete
         THEN DbResult(client, "index", 0, "none", {}, NoExc, TRUE)
         ELSE DbResult(client, "index", indexDim, indexCloud, store, NoExc, TRUE)

\* the create_index calls made: GCP is tried only after AWS failed
CreateAttempts(e) ==
    IF e.aws THEN <<"aws/us-east-1">> ELSE <<"aws/us-east-1", "gcp/us-central1">>

\* the create branch, with the outcome of the create_index calls
CreateIndexWith(client, e, attempts, created) ==
    IF ~created
    THEN [DbResult(client, None, indexDim, indexCloud, store, RuntimeError,
                   TRUE) EXCEPT !.tried = attempts]
    ELSE LET cloud == attempts[Len(attempts)]
         IN IF ~e.handle
            THEN [DbResult(client, None, EMBEDDING_DIMENSION, cloud, {},
                           RuntimeError, TRUE) EXCEPT !.tried = attempts]
            ELSE [DbResult(client, "index", EMBEDDING_DIMENSION, cloud, {},
                           NoExc, TRUE) EXCEPT !.tried = attempts]

\* a create branch that gives up after the first region
CreateIndexAwsOnly(client, e) ==
    CreateIndexWith(client, e, <<"aws/us-east-1">>, e.aws)

\* the create branch: AWS us-east-1 first, GCP us-central1 if that fails
CreateIndex(client, e) ==
    CreateIndexWith(client, e, CreateAttempts(e), e.aws \/ e.gcp)

GetPineconeIndexResult(e) ==
    IF _pinecone_index # None
    THEN DbResult(_pinecone_client, _pinecone_index, indexDim, indexCloud,
                  store, NoExc, FALSE)
    ELSE LET fresh == _pinecone_client = None
             client == IF fresh THEN InitDbClient(e) ELSE _pinecone_client
         IN IF fresh /\ ~InitDb(e)
            THEN DbResult(client, None, indexDim, indexCloud, store,
                          RuntimeError, e.api_key)
            ELSE IF ~e.list
            THEN DbResult(client, None, indexDim, indexCloud, store,
                          RuntimeError, TRUE)
            ELSE IF indexDim # 0
            THEN UseExistingIndex(client, e)
            ELSE CreateIndex(client, e)

\* the answers that matter: one fixed answer when the cached handle is returned
DbEnvsNow == IF _pinecone_index # None THEN {DbAllOk} ELSE DbEnvs

ApplyDbResult(r) ==
    /\ _pinecone_client' = r.client
    /\ _pinecone_index' = r.index
    /\ indexDim' = r.dim
    /\ indexCloud' = r.cloud
    /\ store' = r.vectors

----------------------------------------------------------------------------
(* utils.py: file-type detection and chunk helpers *)

\* os.path.splitext(filename)[1]
SplitExt(filename) ==
    CASE filename = "slides.pdf" -> ".pdf"
      [] filename = "NOTES.TXT" -> ".TXT"
      [] filename = "tool.exe" -> ".exe"
      [] OTHER -> ""

\* str.lower() on an extension
Lower(ext) == IF ext = ".TXT" THEN ".txt" ELSE ext

\* save_upload_file: the suffix given to the temporary file
TempSuffix(suffix) == IF suffix # "" THEN suffix ELSE ""

\* get_file_extension: SUPPORTED_FILE_TYPES.get(file_mime)
GetFileExtension(file_mime) ==
    IF file_mime \in DOMAIN SUPPORTED_FILE_TYPES
    THEN SUPPORTED_FILE_TYPES[file_mime]
    ELSE None

\* a loader choice that never raises for an unknown type
LoadDocumentExtNoReject(file_mime, filename) ==
    IF GetFileExtension(file_mime) # None
    THEN GetFileExtension(file_mime)
    ELSE Lower(TempSuffix(SplitExt(filename)))

\* load_document's choice of loader: the extension it settles on, or
\* "unsupported" when it raises ValueError.  The temporary file's path ends
\* with the upload's own extension.
LoadDocumentExt(file_mime, filename) ==
    LET file_ext == GetFileExtension(file_mime)
        fallback == Lower(TempSuffix(SplitExt(filename)))
    IN IF file_ext # None
       THEN file_ext
       ELSE IF fallback = "" \/ fallback \notin FallbackExtensions
            THEN "unsupported"
            ELSE fallback

\* str.strip() on a chunk's page_content
Strip(content) == IF content = " " THEN "" ELSE content

\* the filter of process_file_chunks and the skip test of the chunk loop
IsValidChunk(chunk) == Strip(chunk.page_content) # ""

ValidChunks(chunks) == SelectSeq(chunks, IsValidChunk)

\* the chunk list the splitter returns for the given page contents
RawChunks(contents) ==
    [k \in 1..Len(contents) |-> [pos |-> k, page_content |-> contents[k]]]

ContentSeqs(n) == UNION {[1..k -> Contents] : k \in 0..n}

\* generate_slide_id: uuid4, modelled as a value never generated before
GenerateSlideId == nextUuid + 1

\* an id made of the chunk index alone
ChunkIdWithoutUuid(uuid, i) == <<0, i>>

\* f"{utils.generate_slide_id()}_{i}"
ChunkId(uuid, i) == <<uuid, i>>

----------------------------------------------------------------------------
(* slide_controller.py: exception handlers *)

\* process_uploaded_file: except Exception -> ValueError
ProcessUploadedFileCatch(e) == ValueError

\* a handler without the "except HTTPException: raise" clause
ProcessFileChunksCatchAll(e) == HTTPException(HTTP_500_INTERNAL_SERVER_ERROR)

\* process_file_chunks: except HTTPException: raise; except Exception -> 500
ProcessFileChunksCatch(e) ==
    IF IsHTTP(e) THEN e ELSE HTTPException(HTTP_500_INTERNAL_SERVER_ERROR)

\* upload_slide, around process_file_chunks: HTTPException re-raised, else 400
UploadInnerCatch(e) ==
    IF IsHTTP(e) THEN e ELSE HTTPException(HTTP_400_BAD_REQUEST)

\* upload_slide, around the embedding probe: any error -> 500
ProbeCatch(e) == HTTPException(HTTP_500_INTERNAL_SERVER_ERROR)

\* upload_slide, outermost: HTTPException re-raised, else 500
UploadOuterCatch(e) ==
    IF IsHTTP(e) THEN e ELSE HTTPException(HTTP_500_INTERNAL_SERVER_ERROR)

\* search_slides, outermost: every exception -> 500
SearchOuterCatch(e) == HTTPException(HTTP_500_INTERNAL_SERVER_ERROR)

\* get_slide: HTTPException re-raised, else 500
GetSlideCatch(e) ==
    IF IsHTTP(e) THEN e ELSE HTTPException(HTTP_500_INTERNAL_SERVER_ERROR)

\* what leaves upload_slide for an exception raised at each depth
FromUploadBody(e) == UploadOuterCatch(e)
FromProcessFileChunks(e) ==
    UploadOuterCatch(UploadInnerCatch(ProcessFileChunksCatch(e)))
FromProcessUploadedFile(e) ==
    FromProcessFileChunks(ProcessUploadedFileCatch(e))
FromProbe(e) == UploadOuterCatch(ProbeCatch(e))

\* the details of the failure responses
ProcessingErrorDetail == "An error occurred while processing the file"
NoTextDetail == "No valid text content could be extracted from the file."
ProbeErrorDetail == "Failed to initialize text embeddings"
NoValidChunksDetail == "Failed to process any valid chunks from the file"

----------------------------------------------------------------------------
(* slide_controller.py: request checks *)

\* a cap ten times too high
ExceedsMaxFileSizeWrongUnit(file_size) == file_size > MAX_FILE_SIZE * 10

\* the size cap of process_file_chunks
ExceedsMaxFileSize(file_size) == file_size > MAX_FILE_SIZE

\* the detail of the HTTPException ValidateRequest raises
ValidateRequestDetail(slide_data, file) ==
    IF ~slide_data.present THEN "No slide data provided"
    ELSE IF file = NoFile THEN "No file provided"
    ELSE IF ~slide_data.names_ok
    THEN "Slide name, course name, and subject name are required"
    ELSE ""

\* the detail of the HTTPException CheckFile raises
CheckFileDetail(file) ==
    IF file = NoFile \/ file.filename = "" THEN "No file provided or invalid file"
    ELSE IF file.size = 0 THEN "File is empty"
    ELSE IF ExceedsMaxFileSize(file.size)
    THEN "File size exceeds maximum allowed size"
    ELSE ""

\* process_file_chunks seeks to the end of the file to learn its size once
\* the file and its name are there
ChecksFileSize(file) == file # NoFile /\ file.filename # ""

\* a validation that forgets the three required names
ValidateRequestWithoutNames(slide_data, file) ==
    IF ~slide_data.present THEN HTTPException(HTTP_400_BAD_REQUEST)
    ELSE IF file = NoFile THEN HTTPException(HTTP_400_BAD_REQUEST)
    ELSE NoExc

\* upload_slide: the three checks before the file is touched
ValidateRequest(slide_data, file) ==
    IF ~slide_data.present THEN HTTPException(HTTP_400_BAD_REQUEST)
    ELSE IF file = NoFile THEN HTTPException(HTTP_400_BAD_REQUEST)
    ELSE IF ~slide_data.names_ok THEN HTTPException(HTTP_400_BAD_REQUEST)
    ELSE NoExc

\* process_file_chunks: the checks before extraction
CheckFile(file) ==
    IF file = NoFile \/ file.filename = "" THEN HTTPException(HTTP_400_BAD_REQUEST)
    ELSE IF file.size = 0 THEN HTTPException(HTTP_400_BAD_REQUEST)
    ELSE IF ExceedsMaxFileSize(file.size) THEN HTTPException(HTTP_400_BAD_REQUEST)
    ELSE NoExc

\* a probe that only asks for a non-empty vector
ProbeAcceptsNonEmpty(embedding_dimension) == embedding_dimension > 0

\* the probe's dimension test
ProbeAccepts(embedding_dimension) == embedding_dimension = ExpectedProbeDimension

\* a loop that stops at the first failed chunk
BreakAfterFailedChunk(i, total_chunks) == total_chunks

\* the chunk the loop turns to after chunk i was skipped or failed
AfterFailedChunk(i, total_chunks) == i + 1

\* an upsert that rewrites the whole namespace
UpsertReplacingAll(vectors, rec) == {rec}

\* pinecone_index.upsert: a record with the same id is replaced
Upsert(vectors, rec) == {r \in vectors : r.id # rec.id} \cup {rec}

\* a record that numbers the chunks from one
ChunkRecordOneBased(chunk_id, i, total_chunks, embedding) ==
    [id |-> chunk_id, vector_id |-> chunk_id, part |-> i + 1,
     chunk_index |-> i + 1, total_chunks |-> total_chunks,
     embedding |-> embedding]

\* the record built for chunk i: the metadata, the id and the embedding
ChunkRecord(chunk_id, i, total_chunks, embedding) ==
    [id |-> chunk_id, vector_id |-> chunk_id, part |-> i + 1,
     chunk_index |-> i, total_chunks |-> total_chunks, embedding |-> embedding]

----------------------------------------------------------------------------
(* State after construction *)

\* a vector an index found at start-up already holds
LegacyRecord(dim) ==
    [id |-> ChunkId(0, 0), vector_id |-> ChunkId(0, 0), part |-> 1,
     chunk_index |-> 0, total_chunks |-> 1,
     embedding |-> [dim |-> dim, of |-> 1]]

IdleReq ==
    [pc |-> "idle", slide_data |-> [present |-> FALSE, names_ok |-> FALSE],
     file |-> NoFile, mime |-> None, raised |-> NoExc, exc |-> NoExc,
     chunks |-> <<>>, total_chunks |-> 0, i |-> 0, results |-> <<>>,
     extractCalls |-> 0, tempMade |-> 0, probeDim |-> 0, skips |-> 0,
     detail |-> "", sizeChecked |-> FALSE, firstUuid |-> 0,
     embedAttempts |-> <<>>, upsertAttempts |-> <<>>,
     chunk_id |-> ChunkId(0, 0), embedding |-> [dim |-> 0, of |-> 0]]

Op(name, exc, count) ==
    [name |-> name, exc |-> exc, count |-> count, value |-> None,
     contacted |-> FALSE, tried |-> <<>>]

\* the record of a get_pinecone_index call: what it returned or raised,
\* whether it called the vector store, the create_index calls it made
DbOp(r) ==
    [name |-> "get_pinecone_index", exc |-> r.exc, count |-> 0,
     value |-> IF r.exc = NoExc THEN r.index ELSE None,
     contacted |-> r.contacted, tried |-> r.tried]

Init ==
    /\ _pinecone_client = None
    /\ _pinecone_index = None
    /\ pinecone_index = None
    /\ indexDim \in IndexDimensions
    /\ indexCloud = IF indexDim = 0 THEN "none" ELSE "preexisting"
    /\ store = IF indexDim = 0 THEN {} ELSE {LegacyRecord(indexDim)}
    /\ tempFiles = 0
    /\ nextUuid = 0
    /\ upsertLog = <<>>
    /\ req = IdleReq
    /\ op = Op("none", NoExc, 0)

NoUploadInFlight == req.pc \in {"idle", "done"}

\* a handler that drops the cached client
RequestResetsClient ==
    /\ _pinecone_client' = None
    /\ UNCHANGED <<_pinecone_index, pinecone_index>>

\* the request handlers' use of the module globals: they are only read
RequestKeepsModuleState == UNCHANGED moduleState

----------------------------------------------------------------------------
(* Obtaining the index handle *)

\* slide_controller.py, at import: pinecone_index = get_pinecone_index()
ImportController ==
    /\ pinecone_index = None
    /\ \E e \in DbEnvsNow :
         LET r == GetPineconeIndexResult(e)
         IN /\ ApplyDbResult(r)
            /\ pinecone_index' = IF r.exc = NoExc THEN r.index ELSE None
            /\ op' = DbOp(r)
    /\ UNCHANGED <<tempFiles, nextUuid, upsertLog, req>>

\* any later call of get_pinecone_index
GetPineconeIndex ==
    /\ pinecone_index # None
    /\ NoUploadInFlight
    /\ \E e \in DbEnvsNow :
         LET r == GetPineconeIndexResult(e)
         IN /\ ApplyDbResult(r)
            /\ op' = DbOp(r)
    /\ req' = IdleReq
    /\ UNCHANGED <<pinecone_index, tempFiles, nextUuid, upsertLog>>

----------------------------------------------------------------------------
(* upload_slide *)

\* upload_slide up to the call of process_uploaded_file: request validation,
\* then process_file_chunks' file checks
StartUpload(slide_data, file) ==
    /\ NoUploadInFlight
    /\ pinecone_index # None
    /\ nextUuid < MaxIds
    /\ LET fresh == [IdleReq EXCEPT !.slide_data = slide_data, !.file = file,
                                    !.firstUuid = nextUuid]
           e1 == ValidateRequest(slide_data, file)
           e2 == CheckFile(file)
           checked == [fresh EXCEPT !.sizeChecked = ChecksFileSize(file)]
       IN req' = IF e1 # NoExc
                 THEN [fresh EXCEPT !.pc = "done", !.raised = e1,
                                    !.exc = FromUploadBody(e1),
                                    !.detail = ValidateRequestDetail(slide_data,
                                                                     file)]
                 ELSE IF e2 # NoExc
                 THEN [checked EXCEPT !.pc = "done", !.raised = e2,
                                      !.exc = FromProcessFileChunks(e2),
                                      !.detail = CheckFileDetail(file)]
                 ELSE [checked EXCEPT !.pc = "save"]
    /\ op' = Op("upload_slide", NoExc, 0)
    /\ RequestKeepsModuleState
    /\ UNCHANGED <<storeState, tempFiles, nextUuid, upsertLog>>

\* process_uploaded_file, first half: save_upload_file.  The temporary file
\* exists as soon as NamedTemporaryFile returns; reading the upload or
\* writing it may then fail.
SaveUploadFile(outcome) ==
    /\ req.pc = "save"
    /\ outcome = "write_fail" => tempFiles < MaxTempFiles
    /\ LET made == IF outcome = "create_fail" THEN 0 ELSE 1
           called == [req EXCEPT !.extractCalls = @ + 1, !.tempMade = made]
       IN /\ tempFiles' = tempFiles + made
          /\ req' = IF outcome = "ok"
                    THEN [called EXCEPT !.pc = "load"]
                    ELSE [called EXCEPT
                            !.pc = "done", !.raised = LibraryError,
                            !.exc = FromProcessUploadedFile(LibraryError),
                            !.detail = ProcessingErrorDetail]
    /\ op' = Op("upload_slide", NoExc, 0)
    /\ RequestKeepsModuleState
    /\ UNCHANGED <<storeState, nextUuid, upsertLog>>

\* the error process_uploaded_file meets after the file was saved, if any
ExtractionError(file_size, file_mime, filename, parse_ok, chunks) ==
    IF file_size = 0 THEN ValueError
    ELSE IF LoadDocumentExt(file_mime, filename) = "unsupported" THEN ValueError
    ELSE IF ~parse_ok THEN LibraryError
    ELSE IF chunks = <<>> THEN ValueError
    ELSE NoExc

\* process_uploaded_file, second half (size of the saved file, load_document,
\* chunk_documents, and the finally clause that unlinks the temporary file),
\* then process_file_chunks' filter of the chunks
LoadAndChunk(file_mime, parse_ok, contents) ==
    /\ req.pc = "load"
    /\ LET chunks == RawChunks(contents)
           e == ExtractionError(req.file.size, file_mime, req.file.filename,
                                parse_ok, chunks)
           valid_chunks == ValidChunks(chunks)
           sniffed == [req EXCEPT !.mime = file_mime]
       IN req' = IF e # NoExc
                 THEN [sniffed EXCEPT !.pc = "done", !.raised = e,
                                      !.exc = FromProcessUploadedFile(e),
                                      !.detail = ProcessingErrorDetail]
                 ELSE IF valid_chunks = <<>>
                 THEN [sniffed EXCEPT
                         !.pc = "done",
                         !.raised = HTTPException(HTTP_400_BAD_REQUEST),
                         !.exc = FromProcessFileChunks(
                                     HTTPException(HTTP_400_BAD_REQUEST)),
                         !.detail = NoTextDetail]
                 ELSE [sniffed EXCEPT
                         !.pc = "probe", !.chunks = valid_chunks,
                         !.total_chunks = Len(valid_chunks),
                         !.embedAttempts = [k \in 1..Len(valid_chunks) |-> 0],
                         !.upsertAttempts = [k \in 1..Len(valid_chunks) |-> 0]]
    /\ tempFiles' = tempFiles - 1
    /\ op' = Op("upload_slide", NoExc, 0)
    /\ RequestKeepsModuleState
    /\ UNCHANGED <<storeState, nextUuid, upsertLog>>

\* upload_slide: the embedding probe, embed_documents(["test"])
ProbeEmbedding(call_ok, outcome) ==
    /\ req.pc = "probe"
    /\ req' = IF ~call_ok
              THEN [req EXCEPT !.pc = "done", !.probeDim = -1,
                               !.raised = LibraryError,
                               !.exc = FromProbe(LibraryError),
                               !.detail = ProbeErrorDetail]
              ELSE IF ~ProbeAccepts(outcome)
              THEN [req EXCEPT !.pc = "done", !.probeDim = outcome,
                               !.raised = ValueError,
                               !.exc = FromProbe(ValueError),
                               !.detail = ProbeErrorDetail]
              ELSE [req EXCEPT !.pc = "embed", !.probeDim = outcome, !.i = 0,
                               !.results = <<>>]
    /\ op' = Op("upload_slide", NoExc, 0)
    /\ RequestKeepsModuleState
    /\ UNCHANGED <<storeState, tempFiles, nextUuid, upsertLog>>

\* the chunk loop, first half for chunk i: the skip test, the id, the
\* embedding call
EmbedChunk(embed_ok) ==
    /\ req.pc = "embed"
    /\ req.i < Len(req.chunks)
    /\ LET i == req.i
           chunk == req.chunks[i + 1]
       IN IF ~IsValidChunk(chunk)
          THEN /\ req' = [req EXCEPT !.i = AfterFailedChunk(i, req.total_chunks),
                                     !.skips = @ + 1]
               /\ nextUuid' = nextUuid
          ELSE /\ nextUuid' = nextUuid + 1
               /\ req' = IF embed_ok
                         THEN [req EXCEPT
                                 !.pc = "upsert",
                                 !.chunk_id = ChunkId(GenerateSlideId, i),
                                 !.embedding = [dim |-> req.probeDim,
                                                of |-> chunk.pos],
                                 !.embedAttempts[i + 1] = @ + 1]
                         ELSE [req EXCEPT
                                 !.i = AfterFailedChunk(i, req.total_chunks),
                                 !.skips = @ + 1,
                                 !.embedAttempts[i + 1] = @ + 1]
    /\ op' = Op("upload_slide", NoExc, 0)
    /\ RequestKeepsModuleState
    /\ UNCHANGED <<storeState, tempFiles, upsertLog>>

\* the vector store accepts a vector only into an existing index of the
\* vector's dimension
StoreAccepts(embedding) == indexDim # 0 /\ indexDim = embedding.dim

\* an append that does not wait for the upsert to succeed
ResultsAppendAlways(results, rec, upsert_ok) == Append(results, rec)

\* the record is appended in the try block of the upsert, after the call
ResultsAfterUpsert(results, rec, upsert_ok) ==
    IF upsert_ok THEN Append(results, rec) ELSE results

\* the chunk loop, second half for chunk i: the metadata, the upsert and the
\* record appended to the results
UpsertChunk(upsert_ok) ==
    /\ req.pc = "upsert"
    /\ upsert_ok => StoreAccepts(req.embedding)
    /\ LET i == req.i
           rec == ChunkRecord(req.chunk_id, i, req.total_chunks, req.embedding)
       IN /\ upsertLog' = Append(upsertLog, req.chunk_id)
          /\ IF upsert_ok
             THEN /\ store' = Upsert(store, rec)
                  /\ req' = [req EXCEPT
                               !.pc = "embed", !.i = i + 1,
                               !.results = ResultsAfterUpsert(@, rec, upsert_ok),
                               !.upsertAttempts[i + 1] = @ + 1]
             ELSE /\ store' = store
                  /\ req' = [req EXCEPT
                               !.pc = "embed",
                               !.i = AfterFailedChunk(i, req.total_chunks),
                               !.skips = @ + 1,
                               !.results = ResultsAfterUpsert(@, rec, upsert_ok),
                               !.upsertAttempts[i + 1] = @ + 1]
    /\ op' = Op("upload_slide", NoExc, 0)
    /\ RequestKeepsModuleState
    /\ UNCHANGED <<indexDim, indexCloud, tempFiles, nextUuid>>

\* a test that lets an empty result list through
NoResultsNever(results) == FALSE

\* "if not results"
NoResults(results) == results = <<>>

\* upload_slide after the loop: an empty result list is an error
FinishUpload ==
    /\ req.pc = "embed"
    /\ req.i >= Len(req.chunks)
    /\ req' = IF NoResults(req.results)
              THEN [req EXCEPT
                      !.pc = "done",
                      !.raised = HTTPException(HTTP_400_BAD_REQUEST),
                      !.exc = FromUploadBody(HTTPException(HTTP_400_BAD_REQUEST)),
                      !.detail = NoValidChunksDetail]
              ELSE [req EXCEPT !.pc = "done"]
    /\ op' = Op("upload_slide", NoExc, 0)
    /\ RequestKeepsModuleState
    /\ UNCHANGED <<storeState, tempFiles, nextUuid, upsertLog>>

----------------------------------------------------------------------------
(* The read-only handlers *)

Min(a, b) == IF a < b THEN a ELSE b

DefaultSearchLimit == 5

\* search_slides: embed the query, query the index, convert the matches
SearchSlides(outcome) ==
    /\ NoUploadInFlight
    /\ pinecone_index # None
    /\ outcome = "ok" => indexDim # 0
    /\ op' = CASE outcome = "embed_fail" ->
                    Op("search_slides",
                       SearchOuterCatch(
                           HTTPException(HTTP_500_INTERNAL_SERVER_ERROR)), 0)
               [] outcome = "query_fail" ->
                    Op("search_slides", SearchOuterCatch(LibraryError), 0)
               [] OTHER ->
                    Op("search_slides", NoExc,
                       Min(DefaultSearchLimit, Cardinality(store)))
    /\ req' = IdleReq
    /\ RequestKeepsModuleState
    /\ UNCHANGED <<storeState, tempFiles, nextUuid, upsertLog>>

\* get_slides: returns the empty list
GetSlides ==
    /\ NoUploadInFlight
    /\ pinecone_index # None
    /\ op' = Op("get_slides", NoExc, 0)
    /\ req' = IdleReq
    /\ RequestKeepsModuleState
    /\ UNCHANGED <<storeState, tempFiles, nextUuid, upsertLog>>

\* get_slide: always 404
GetSlide ==
    /\ NoUploadInFlight
    /\ pinecone_index # None
    /\ op' = Op("get_slide", GetSlideCatch(HTTPException(HTTP_404_NOT_FOUND)), 0)
    /\ req' = IdleReq
    /\ RequestKeepsModuleState
    /\ UNCHANGED <<storeState, tempFiles, nextUuid, upsertLog>>

----------------------------------------------------------------------------
Next ==
    \/ ImportController
    \/ GetPineconeIndex
    \/ \E slide_data \in SlideDatas, file \in Files : StartUpload(slide_data, file)
    \/ \E outcome \in {"ok", "create_fail", "write_fail"} : SaveUploadFile(outcome)
    \/ \E file_mime \in MimeTypes, parse_ok \in BOOLEAN,
          contents \in ContentSeqs(Min(MaxChunks, MaxIds - nextUuid)) :
            LoadAndChunk(file_mime, parse_ok, contents)
    \/ \E call_ok \in BOOLEAN, dim \in Dimensions : ProbeEmbedding(call_ok, dim)
    \/ \E embed_ok \in BOOLEAN : EmbedChunk(embed_ok)
    \/ \E upsert_ok \in BOOLEAN : UpsertChunk(upsert_ok)
    \/ FinishUpload
    \/ \E outcome \in {"ok", "embed_fail", "query_fail"} : SearchSlides(outcome)
    \/ GetSlides
    \/ GetSlide

Spec == Init /\ [][Next]_vars

----------------------------------------------------------------------------
(* Properties *)

RECURSIVE SumSeq(_)
SumSeq(q) == IF q = <<>> THEN 0 ELSE Head(q) + SumSeq(Tail(q))

\* calls made for the chunks of the request at hand
EmbedCalls == SumSeq(req.embedAttempts)
UpsertCalls == SumSeq(req.upsertAttempts)

\* nothing was embedded or stored for the request at hand
NothingEmbeddedOrStored ==
    /\ EmbedCalls = 0
    /\ UpsertCalls = 0
    /\ req.results = <<>>
    /\ req.pc # "upsert"

RequestIsValid ==
    /\ req.pc # "idle"
    /\ req.slide_data.present
    /\ req.slide_data.names_ok
    /\ req.file # NoFile
    /\ req.file.filename # ""

\* C1: an upload whose file is larger than MAX_FILE_SIZE ends with HTTP 400
\* and without any extraction, probe, embedding or upsert; a file of exactly
\* MAX_FILE_SIZE bytes in an otherwise valid request goes on to extraction.
C1_FileSizeCapped ==
    /\ (req.pc # "idle" /\ req.file # NoFile /\ req.file.size > MAX_FILE_SIZE) =>
          /\ req.pc = "done"
          /\ req.exc = HTTPException(HTTP_400_BAD_REQUEST)
          /\ req.extractCalls = 0
          /\ req.probeDim = 0
          /\ NothingEmbeddedOrStored
    /\ (RequestIsValid /\ req.file.size = MAX_FILE_SIZE) =>
          req.pc = "save" \/ req.extractCalls = 1

C1_Witness ==
    /\ RequestIsValid
    /\ req.pc = "done"
    /\ req.file.size = MAX_FILE_SIZE + 1
    /\ req.exc = HTTPException(HTTP_400_BAD_REQUEST)
    /\ req.extractCalls = 0

SniffedUnsupported ==
    req.mime # None /\ req.mime \notin DOMAIN SUPPORTED_FILE_TYPES

\* C2 as stated: whenever the sniffed MIME type is not a key of
\* SUPPORTED_FILE_TYPES, whatever the file name's extension, the request ends
\* in a failure and nothing of the file is embedded or upserted.
C2_UnsupportedMimeRejected ==
    SniffedUnsupported =>
        /\ NothingEmbeddedOrStored
        /\ req.pc = "done" => req.exc # NoExc

\* C2 amended: when the sniffed MIME type is not a key of
\* SUPPORTED_FILE_TYPES and the file name's lower-cased extension is not one
\* of the eight supported extensions, load_document raises ValueError, the
\* request ends in a failure response and nothing is embedded or upserted.
C2_UnsupportedMimeAndExtensionRejected ==
    (SniffedUnsupported
        /\ Lower(SplitExt(req.file.filename)) \notin FallbackExtensions) =>
        /\ req.pc = "done"
        /\ req.raised = ValueError
        /\ IsHTTP(req.exc)
        /\ req.probeDim = 0
        /\ NothingEmbeddedOrStored

C2_Witness ==
    /\ req.pc = "done"
    /\ req.mime = "application/zip"
    /\ req.file.filename = "tool.exe"
    /\ req.raised = ValueError
    /\ req.exc = HTTPException(HTTP_500_INTERNAL_SERVER_ERROR)

\* C3: a probe that fails or returns a vector whose length is not 768 ends
\* the request with HTTP 500 and nothing embedded or upserted; a chunk is
\* embedded or upserted only after the probe returned length 768.
C3_ProbeDimensionFatal ==
    /\ req.probeDim \notin {0, ExpectedProbeDimension} =>
          /\ req.pc = "done"
          /\ req.exc = HTTPException(HTTP_500_INTERNAL_SERVER_ERROR)
          /\ NothingEmbeddedOrStored
    /\ ~NothingEmbeddedOrStored => req.probeDim = ExpectedProbeDimension

C3_Witness ==
    /\ req.pc = "done"
    /\ req.probeDim = 512
    /\ req.exc = HTTPException(HTTP_500_INTERNAL_SERVER_ERROR)
    /\ req.total_chunks > 0

\* C4: outside the span of process_uploaded_file between saving the upload
\* and its finally clause, no temporary file of the pipeline is on disk.
C4_TempFilesRemoved == req.pc # "load" => tempFiles = 0

LoopEntered == req.probeDim = ExpectedProbeDimension

\* C5: in the chunk loop every chunk before the current one has had exactly
\* one embedding attempt and at most one upsert attempt, no chunk after it
\* has had any, the loop ends only after the last chunk, and every record
\* put into the results is still in the store.
C5_SkipOneChunkAndContinue ==
    LoopEntered =>
        /\ \A j \in 1..req.total_chunks :
              /\ j <= req.i =>
                    /\ req.embedAttempts[j] = 1
                    /\ req.upsertAttempts[j] <= 1
              /\ (j = req.i + 1 /\ req.pc = "upsert") =>
                    /\ req.embedAttempts[j] = 1
                    /\ req.upsertAttempts[j] = 0
              /\ (j = req.i + 1 /\ req.pc # "upsert") =>
                    /\ req.embedAttempts[j] = 0
                    /\ req.upsertAttempts[j] = 0
              /\ j > req.i + 1 =>
                    /\ req.embedAttempts[j] = 0
                    /\ req.upsertAttempts[j] = 0
        /\ req.pc = "done" =>
              \A j \in 1..req.total_chunks : req.embedAttempts[j] = 1
        /\ \A k \in 1..Len(req.results) : req.results[k] \in store

C5_Witness ==
    /\ req.pc = "done"
    /\ req.total_chunks = 2
    /\ req.embedAttempts = <<1, 1>>
    /\ req.upsertAttempts = <<0, 1>>
    /\ Len(req.results) = 1
    /\ req.results[1].chunk_index = 1

\* C6: whatever is raised inside upload_slide or process_file_chunks leaves
\* upload_slide as an HTTPException with status 400 or 500, an HTTPException
\* raised inside keeps its status, and a failure of search_slides is an
\* HTTPException with status 400 or 500.
C6_ErrorsConverted ==
    /\ req.pc = "done" =>
          /\ (req.raised = NoExc) <=> (req.exc = NoExc)
          /\ req.raised # NoExc =>
                /\ IsHTTP(req.exc)
                /\ req.exc.status \in {HTTP_400_BAD_REQUEST,
                                       HTTP_500_INTERNAL_SERVER_ERROR}
          /\ IsHTTP(req.raised) => req.exc = req.raised
    /\ (op.name = "search_slides" /\ op.exc # NoExc) =>
          /\ IsHTTP(op.exc)
          /\ op.exc.status \in {HTTP_400_BAD_REQUEST,
                                HTTP_500_INTERNAL_SERVER_ERROR}

C6_Witness ==
    /\ req.pc = "done"
    /\ req.raised = HTTPException(HTTP_400_BAD_REQUEST)
    /\ req.exc = HTTPException(HTTP_400_BAD_REQUEST)
    /\ req.extractCalls = 1
    /\ req.mime # None

RequestOps == {"upload_slide", "search_slides", "get_slides", "get_slide"}

\* an existing index or a stored record is gone after the step
SomethingDeleted ==
    \/ indexDim # 0 /\ indexDim' # indexDim
    \/ ~(store \subseteq store')

\* C7 as stated: no step of the service, get_pinecone_index included, deletes
\* or modifies an index or a stored vector; only upload_slide writes.
C7_NoDeletionPath ==
    [][/\ ~SomethingDeleted
       /\ store' # store => op'.name = "upload_slide"]_vars

\* C7 amended: no request handler deletes or modifies an index or a stored
\* vector, the only write of a handler is upload_slide's upsert of a record
\* with a new id, and the read-only handlers leave the store as it is;
\* get_pinecone_index deletes the index with its vectors only when no handle
\* is cached and the existing index's dimension is not 768.
C7_NoDeletionPathInHandlers ==
    [][/\ op'.name \in RequestOps =>
             /\ ~SomethingDeleted
             /\ indexDim' = indexDim
             /\ \A r \in store' \ store :
                   /\ op'.name = "upload_slide"
                   /\ r.id \notin {x.id : x \in store}
             /\ op'.name # "upload_slide" => store' = store
       /\ SomethingDeleted =>
             /\ op'.name = "get_pinecone_index"
             /\ _pinecone_index = None
             /\ IndexDimensionMismatch(indexDim)]_vars

C7_Witness ==
    /\ op.name = "upload_slide"
    /\ req.pc = "done"
    /\ Len(req.results) = 1
    /\ indexDim = EMBEDDING_DIMENSION
    /\ LegacyRecord(EMBEDDING_DIMENSION) \in store
    /\ Cardinality(store) = 2

\* C8: a step of upload_slide or search_slides leaves the module-level
\* client and index handles as they were.
C8_NoSharedMutableState ==
    [][op'.name \in {"upload_slide", "search_slides"} =>
          UNCHANGED <<_pinecone_client, _pinecone_index, pinecone_index>>]_vars

C8_Witness ==
    /\ op.name = "search_slides"
    /\ nextUuid > 0
    /\ store # {}
    /\ _pinecone_client = "client"
    /\ _pinecone_index = "index"
    /\ pinecone_index = "index"

\* C9: the ids passed to upsert are pairwise distinct and differ from every
\* id stored before, and every returned record has id = vector_id = the id
\* passed to its upsert, under which the store holds that record.
C9_UniqueChunkIds ==
    /\ \A a, b \in 1..Len(upsertLog) : a # b => upsertLog[a] # upsertLog[b]
    /\ \A a \in 1..Len(upsertLog) : upsertLog[a] # LegacyRecord(0).id
    /\ \A k \in 1..Len(req.results) :
          LET r == req.results[k]
          IN /\ r.id = r.vector_id
             /\ \E a \in 1..Len(upsertLog) : upsertLog[a] = r.id
             /\ \E x \in store : x.id = r.id /\ x = r

C9_Witness ==
    /\ Len(upsertLog) = 2
    /\ upsertLog[1][2] = 0
    /\ upsertLog[2][2] = 0
    /\ Len(req.results) = 1
    /\ Cardinality(store) >= 2

\* C10: with n valid chunks, every returned record has total_chunks = n,
\* chunk_index = the 0-based position of its chunk among the n, and part
\* number chunk_index + 1; the returned list is strictly increasing in
\* chunk_index, no longer than n, and after the loop it is shorter than n
\* exactly when a chunk was skipped.
C10_ChunkIndexAndTotal ==
    LET n == Len(SelectSeq(req.chunks, IsValidChunk))
    IN /\ n = Len(req.chunks)
       /\ req.pc \in {"embed", "upsert"} => req.total_chunks = n
       /\ \A k \in 1..Len(req.results) :
             LET r == req.results[k]
             IN /\ r.total_chunks = n
                /\ r.chunk_index \in 0..(n - 1)
                /\ r.part = r.chunk_index + 1
                /\ r.embedding.of = req.chunks[r.chunk_index + 1].pos
       /\ \A k, l \in 1..Len(req.results) :
             k < l => req.results[k].chunk_index < req.results[l].chunk_index
       /\ Len(req.results) <= n
       /\ (req.pc = "done" /\ LoopEntered) =>
             /\ Len(req.results) = n - req.skips
             /\ (Len(req.results) < req.total_chunks) <=> (req.skips > 0)

C10_Witness ==
    /\ req.pc = "done"
    /\ req.exc = NoExc
    /\ req.total_chunks = 2
    /\ Len(req.results) = 2
    /\ req.results[1].chunk_index = 0
    /\ req.results[2].chunk_index = 1
    /\ req.results[2].part = 2

\* C11: upload_slide returns only a non-empty list, each of whose records
\* was embedded once, upserted once and is in the store; when the loop ran
\* and every chunk was skipped, the request fails with HTTP 400 "Failed to
\* process any valid chunks from the file".
C11_NeverReturnsEmpty ==
    /\ (req.pc = "done" /\ req.exc = NoExc) =>
          /\ Len(req.results) >= 1
          /\ \A k \in 1..Len(req.results) :
                LET r == req.results[k]
                IN /\ r \in store
                   /\ req.embedAttempts[r.chunk_index + 1] = 1
                   /\ req.upsertAttempts[r.chunk_index + 1] = 1
    /\ (req.pc = "done" /\ LoopEntered /\ req.skips = req.total_chunks) =>
          /\ req.exc = HTTPException(HTTP_400_BAD_REQUEST)
          /\ req.detail = NoValidChunksDetail
          /\ req.results = <<>>

C11_Witness ==
    /\ req.pc = "done"
    /\ LoopEntered
    /\ req.total_chunks = 2
    /\ req.embedAttempts = <<1, 1>>
    /\ req.upsertAttempts = <<1, 0>>
    /\ req.exc = HTTPException(HTTP_400_BAD_REQUEST)
    /\ req.detail = NoValidChunksDetail

\* the request lacks slide_data, the file, or one of the three names
RequestIsIncomplete ==
    /\ req.pc # "idle"
    /\ \/ ~req.slide_data.present
       \/ req.file = NoFile
       \/ ~req.slide_data.names_ok

\* nothing beyond the checks was done for the request at hand
NoWorkDone ==
    /\ req.extractCalls = 0
    /\ req.tempMade = 0
    /\ req.probeDim = 0
    /\ NothingEmbeddedOrStored

\* C12: a request without slide_data, without file or without one of the
\* three names fails with HTTP 400 before the file's size is looked at,
\* before any temporary file, probe, embedding or upsert; a complete request
\* whose file has no name or no bytes fails with HTTP 400 ("File is empty"
\* for no bytes) before extraction starts.
C12_ValidationPrecedesWork ==
    /\ RequestIsIncomplete =>
          /\ req.pc = "done"
          /\ req.exc = HTTPException(HTTP_400_BAD_REQUEST)
          /\ req.detail \in {"No slide data provided", "No file provided",
                "Slide name, course name, and subject name are required"}
          /\ ~req.sizeChecked
          /\ NoWorkDone
    /\ (req.pc # "idle" /\ ~RequestIsIncomplete
           /\ (req.file.filename = "" \/ req.file.size = 0)) =>
          /\ req.pc = "done"
          /\ req.exc = HTTPException(HTTP_400_BAD_REQUEST)
          /\ req.file.filename # "" => req.detail = "File is empty"
          /\ NoWorkDone

C12_Witness ==
    /\ req.pc = "done"
    /\ req.slide_data.present
    /\ ~req.slide_data.names_ok
    /\ req.file.filename = "slides.pdf"
    /\ req.file.size = MAX_FILE_SIZE
    /\ req.exc = HTTPException(HTTP_400_BAD_REQUEST)
    /\ ~req.sizeChecked

\* C13: a request whose extraction raised, or whose chunks were all blank,
\* fails with HTTP 400 and nothing is embedded or upserted.
C13_ExtractionFailureIsClientError ==
    (req.pc = "done" /\ req.extractCalls = 1 /\ req.probeDim = 0
        /\ req.raised # NoExc) =>
        /\ req.exc = HTTPException(HTTP_400_BAD_REQUEST)
        /\ NothingEmbeddedOrStored

\* C14: a get_pinecone_index call with a cached handle returns it without
\* calling the vector store and changes nothing; with no index a successful
\* call leaves one of dimension 768, created in AWS us-east-1, or in GCP
\* us-central1 after the AWS call failed, and both are tried before creation
\* is given up; a call raises nothing but RuntimeError and then leaves the
\* cached handle unset; a call that returns caches what it returns.
C14_GetOrCreateCached ==
    [][op'.name = "get_pinecone_index" =>
          /\ _pinecone_index # None =>
                /\ op'.exc = NoExc
                /\ op'.value = _pinecone_index
                /\ ~op'.contacted
                /\ UNCHANGED <<_pinecone_client, _pinecone_index, storeState>>
          /\ (_pinecone_index = None /\ indexDim = 0 /\ op'.exc = NoExc) =>
                /\ indexDim' = EMBEDDING_DIMENSION
                /\ indexCloud' = op'.tried[Len(op'.tried)]
          /\ op'.tried # <<>> =>
                /\ _pinecone_index = None /\ indexDim = 0
                /\ op'.tried \in {<<"aws/us-east-1">>,
                                  <<"aws/us-east-1", "gcp/us-central1">>}
                /\ indexDim' = 0 =>
                      op'.tried = <<"aws/us-east-1", "gcp/us-central1">>
          /\ op'.exc # NoExc =>
                /\ op'.exc = RuntimeError
                /\ _pinecone_index' = None
          /\ op'.exc = NoExc =>
                /\ op'.value # None
                /\ _pinecone_index' = op'.value]_vars

C14_Witness ==
    /\ op.name = "get_pinecone_index"
    /\ op.exc = NoExc
    /\ op.tried = <<"aws/us-east-1", "gcp/us-central1">>
    /\ indexCloud = "gcp/us-central1"
    /\ indexDim = EMBEDDING_DIMENSION
    /\ _pinecone_index = "index"

\* the ids the store holds under uuids generated during the request at hand
StoredByRequest ==
    {x.id : x \in {y \in store : y.id[1] > req.firstUuid}}

ReturnedIds == {req.results[k].id : k \in 1..Len(req.results)}

\* C15: at every point of a request the ids in its result list are the ids
\* the store holds for it, and a request that fails with "Failed to process
\* any valid chunks from the file" has stored nothing.
C15_ReturnedEqualsStored ==
    req.pc # "idle" =>
        /\ ReturnedIds = StoredByRequest
        /\ (req.pc = "done" /\ req.detail = NoValidChunksDetail) =>
              StoredByRequest = {}

C15_Witness ==
    /\ req.pc = "done"
    /\ req.exc = NoExc
    /\ req.total_chunks = 2
    /\ req.upsertAttempts = <<1, 1>>
    /\ Len(req.results) = 1
    /\ Cardinality(StoredByRequest) = 1

====
